---- MODULE Spec2Model ----
(***************************************************************************)
(* Model of src/bot.py, the filestore bot: the sqlite relations files,     *)
(* batches, items, admins and meta, the two in-memory session maps, the    *)
(* command handlers, the message handler with its forward retries, the     *)
(* deep-link restore and the auto-delete loop.                             *)
(*                                                                         *)
(* Scheduling.  main() builds the Application without concurrent_updates   *)
(* and registers every handler with the default block=True, so the         *)
(* dispatcher awaits a handler to its end before it takes the next update: *)
(* at most one handler is suspended at a time (variable task).  The        *)
(* auto-delete loop is a task of its own (asyncio.create_task in           *)
(* post_init) and runs between the await points of a handler.  Code that   *)
(* lies between two awaits is one atomic step.                             *)
(***************************************************************************)
EXTENDS Integers, Sequences, FiniteSets, TLC

\* ------------------------------------------------------------------ bounds
NumUsers == 2          \* user ids 1..NumUsers
NumCodes == 2          \* size of the code space gen_code draws from
MaxUpdates == 6        \* updates (commands and content messages) taken in one run
MaxTime  == 2          \* int(time()) ranges over 0..MaxTime

\* --------------------------------------------------------------- constants
OWNER_ID == 1
Retries_Four == 3 + 1
Retries  == 3
AUTO_DELETE == 0       \* the environment variable is unset

Users == 1..NumUsers
Codes == 1..NumCodes
\* the codes a user can type as the argument of /setcode and /start: those
\* gen_code can return, and 0 for a string it cannot return (gen_code draws
\* upper-case letters and digits only)
TypedCodes == 0..NumCodes

\* The content of the n-th update when it is a content message: documents
\* with a caption and plain text messages alternate.
InboundMsg(n) ==
  IF n % 2 = 1 THEN [document |-> TRUE,  caption |-> "cap", text |-> ""]
  ELSE [document |-> FALSE, caption |-> "", text |-> "hello"]

\* The meta rows the database file holds when the loop starts: retention on
\* with a delay of 1, on with a value that is not a digit string (the delay
\* falls back to AUTO_DELETE), and off.
MetaRows ==
  { [auto_delete_enabled |-> "1", auto_delete_seconds |-> "1"],
    [auto_delete_enabled |-> "1", auto_delete_seconds |-> ""],
    [auto_delete_enabled |-> "0", auto_delete_seconds |-> "1"] }

NoTask == [kind |-> "none"]

VARIABLES
  files,           \* relation files: rows [code, msg_id, owner, created_at, caption, file_type]
  batches,         \* relation batches: rows [code, owner, created_at, item_count]
  items,           \* relation items in rowid order: rows [code, msg_id, owner]
  admins,          \* relation admins: set of ids
  meta,            \* relation meta: [auto_delete_enabled, auto_delete_seconds]
  filestore_mode,  \* keys of the dict filestore_mode
  batch_mode,      \* the dict batch_mode: uid -> sequence of group message ids
  archive,         \* the storage group: archive[mid] = [src |-> inbound message number]
  now,             \* int(time())
  task,            \* the handler suspended at an await, or NoTask
  nupd,            \* number of updates taken so far; a content message is known by its number
  out,             \* what the last handler (or sweep cycle) did: replies, replay calls
  sent,            \* history: per user with an open /batch, the group message ids of
                   \* the content messages forwarded for them since that /batch
  armed            \* history: the users whose last session start was /filestore and
                   \* who have sent no content message since

vars == << files, batches, items, admins, meta, filestore_mode,
           batch_mode, archive, now, task, nupd, out, sent, armed >>

\* ----------------------------------------------------------------- helpers
Range(s) == { s[i] : i \in DOMAIN s }

RECURSIVE MidsOf(_, _)
\* SELECT msg_id FROM items WHERE code=c ORDER BY rowid ASC
MidsOf(s, c) ==
  IF s = << >> THEN << >>
  ELSE IF Head(s).code = c THEN << Head(s).msg_id >> \o MidsOf(Tail(s), c)
       ELSE MidsOf(Tail(s), c)

RECURSIVE SortedBySrc(_)
\* the message ids of a set, ordered by the inbound message they archive
SortedBySrc(S) ==
  IF S = {} THEN << >>
  ELSE LET m == CHOOSE x \in S : \A y \in S : archive[x].src <= archive[y].src
       IN << m >> \o SortedBySrc(S \ {m})

\* is_admin
is_admin_Everyone(uid) == TRUE
is_admin(uid) == uid \in admins

\* detect_file_type: the first populated field decides; of the eight kinds
\* the inbound messages of the model populate document or none.
detect_file_type(msg) == IF msg.document THEN "document" ELSE "text"

\* caption = msg.caption or (msg.text if msg.text else "")
CaptionOf(msg) ==
  IF msg.caption # "" THEN msg.caption
  ELSE IF msg.text # "" THEN msg.text ELSE ""

\* cmd_setcode's collision check: a files row or a batches row has the code
CodeInUse_FilesOnly(c) == \E f \in files : f.code = c
CodeInUse(c) ==
  (\E f \in files : f.code = c) \/ (\E b \in batches : b.code = c)

\* PRIMARY KEY of files / of batches
FilesHasCode(c)   == \E f \in files : f.code = c
BatchesHasCode(c) == \E b \in batches : b.code = c

\* str.isdigit() and int() on the meta value
IsDigit(s) == s \in {"0", "1"}
ToInt(s)   == IF s = "1" THEN 1 ELSE 0

\* auto_delete_loop: enabled flag and effective delay
SweepEnabled == meta.auto_delete_enabled = "1"
Delay ==
  IF IsDigit(meta.auto_delete_seconds) THEN ToInt(meta.auto_delete_seconds)
  ELSE AUTO_DELETE

\* auto_delete_loop's age test
Outdated_Inclusive(created, now_ts, delay) == now_ts - created >= delay
Outdated_Late(created, now_ts, delay) == now_ts - created > delay + 1
Outdated(created, now_ts, delay) == now_ts - created > delay

\* handle_restore_request's lookup: a files row first, then the items rows
Resolve(code) ==
  IF \E f \in files : f.code = code
  THEN [kind |-> "SingleRef",
        pointers |-> << (CHOOSE f \in files : f.code = code).msg_id >>]
  ELSE IF MidsOf(items, code) # << >>
       THEN [kind |-> "BatchRefs", pointers |-> MidsOf(items, code)]
       ELSE [kind |-> "NotFound", pointers |-> << >>]

\* the session state of a user as message_handler sees it
SessionState(u) ==
  IF u \in filestore_mode THEN "AWAITING_SINGLE"
  ELSE IF u \in DOMAIN batch_mode THEN "ACCUMULATING_BATCH"
  ELSE "IDLE"

Reply(op, uid, reply) == [op |-> op, uid |-> uid, reply |-> reply]
\* a handler whose reply no property looks at, or one that is still running
Quiet == [op |-> "command", reply |-> ""]
\* message_handler has returned
Done(uid, path, reply, first, second, forwarded, fresh) ==
  [op |-> "message", uid |-> uid, path |-> path, reply |-> reply, first |-> first,
   second |-> second, forwarded |-> forwarded, fresh |-> fresh]
\* no files row and no batches row has the code
Unused(c) == (\A f \in files : f.code # c) /\ (\A b \in batches : b.code # c)

\* -------------------------------------------------------------------- Init
Init ==
  /\ files = {}
  /\ batches = {}
  /\ items = << >>
  /\ admins = {OWNER_ID}
  /\ meta \in MetaRows
  /\ filestore_mode = {}
  /\ batch_mode = << >>
  /\ sent = << >>
  /\ archive = << >>
  /\ now = 0
  /\ task = NoTask
  /\ nupd = 0
  /\ out = Quiet
  /\ armed = {}

DbVars == << files, batches, items, admins, meta >>

\* The dispatcher takes the next update only when no handler is running.
Idle == task = NoTask

\* every handler invocation is one update
Update == Idle /\ nupd < MaxUpdates /\ nupd' = nupd + 1

\* ------------------------------------------------------------- cmd_filestore
cmd_filestore(uid) ==
  /\ Update
  /\ filestore_mode' = filestore_mode \cup {uid}
  /\ out' = Quiet
  /\ armed' = armed \cup {uid}
  /\ UNCHANGED << DbVars, batch_mode, sent, archive, now, task >>

\* --------------------------------------------------------------- cmd_setcode
\* the rows "SELECT code FROM files WHERE owner=? ORDER BY created_at DESC
\* LIMIT 1" can return: a newest row of the owner (any of them on a tie)
LastOwned_Anyone(uid) ==
  { f \in files : \A g \in files : g.created_at <= f.created_at }
LastOwned(uid) ==
  { f \in files : f.owner = uid /\ \A g \in files : g.owner = uid => g.created_at <= f.created_at }

cmd_setcode(uid, new_code) ==
  /\ Update
  /\ IF CodeInUse(new_code)
     THEN /\ out' = [op |-> "setcode", uid |-> uid, reply |-> "Code already in use.",
                     new |-> new_code]
          /\ UNCHANGED files
     ELSE IF LastOwned(uid) = {}
     THEN /\ out' = [op |-> "setcode", uid |-> uid, reply |-> "No recent file to rename.",
                     new |-> new_code]
          /\ UNCHANGED files
     ELSE \E row \in LastOwned(uid) :
            \* UPDATE files SET code=new WHERE code=old
            /\ files' = { IF f.code = row.code THEN [f EXCEPT !.code = new_code] ELSE f
                          : f \in files }
            /\ out' = [op |-> "setcode", uid |-> uid, reply |-> "Code updated",
                       new |-> new_code, old |-> row.code, pointer |-> row.msg_id]
  /\ UNCHANGED << batches, items, admins, meta, filestore_mode, batch_mode, sent,
                  archive, now, task, armed >>

\* ----------------------------------------------------------------- cmd_batch
cmd_batch(uid) ==
  /\ Update
  /\ IF ~ is_admin(uid)
     THEN /\ out' = Reply("batch", uid, "Admins only.")
          /\ UNCHANGED << batch_mode, sent, armed >>
     ELSE /\ batch_mode' = [u \in (DOMAIN batch_mode) \cup {uid} |->
                              IF u = uid THEN << >> ELSE batch_mode[u]]
          /\ sent' = [u \in (DOMAIN sent) \cup {uid} |->
                              IF u = uid THEN << >> ELSE sent[u]]
          /\ out' = Reply("batch", uid, "")
          /\ armed' = armed \ {uid}
  /\ UNCHANGED << DbVars, filestore_mode, archive, now, task >>

\* ------------------------------------------------------------- cmd_batchdone
Pop(uid) == [u \in (DOMAIN batch_mode) \ {uid} |-> batch_mode[u]]

cmd_batchdone(uid) ==
  /\ Update
  /\ UNCHANGED << files, admins, meta, filestore_mode, archive, now, task, armed >>
  /\ IF ~ is_admin(uid)
     THEN /\ out' = Reply("batchdone", uid, "Admins only.")
          /\ UNCHANGED << batches, items, batch_mode, sent >>
     ELSE IF uid \notin DOMAIN batch_mode
     THEN /\ out' = Reply("batchdone", uid, "No active batch.")
          /\ UNCHANGED << batches, items, batch_mode, sent >>
     ELSE /\ batch_mode' = Pop(uid)
          /\ sent' = [u \in (DOMAIN sent) \ {uid} |-> sent[u]]
          /\ IF batch_mode[uid] = << >>
             THEN /\ out' = [op |-> "batchdone", uid |-> uid, reply |-> "Batch is empty.",
                             want |-> sent[uid], got |-> << >>]
                  /\ UNCHANGED << batches, items >>
             ELSE \E code \in Codes :          \* gen_code(8)
                    IF BatchesHasCode(code)
                    THEN \* INSERT INTO batches raises sqlite3.IntegrityError
                         /\ out' = [op |-> "batchdone", uid |-> uid,
                                    reply |-> "IntegrityError", code |-> code,
                                    want |-> sent[uid], got |-> << >>]
                         /\ UNCHANGED << batches, items >>
                    ELSE /\ batches' = batches \cup
                              { [code |-> code, owner |-> uid, created_at |-> now,
                                 item_count |-> Len(batch_mode[uid])] }
                         /\ items' = items \o
                              [i \in 1..Len(batch_mode[uid]) |->
                                 [code |-> code, msg_id |-> batch_mode[uid][i], owner |-> uid]]
                         /\ out' = [op |-> "batchdone", uid |-> uid,
                                    reply |-> "Batch saved!", code |-> code,
                                    fresh |-> Unused(code),
                                    want |-> sent[uid], got |-> batch_mode[uid]]

\* ---------------------------------------------- cmd_addadmin, cmd_removeadmin
\* update.effective_user.id != OWNER_ID is the negation of this
IsOwner_AnyAdmin(uid) == is_admin(uid)
IsOwner(uid) == uid = OWNER_ID

AdminReply(op, requester, target, reply) ==
  [op |-> op, uid |-> requester, target |-> target, reply |-> reply]

cmd_addadmin(requester, target) ==
  /\ Update
  /\ IF ~ IsOwner(requester)
     THEN /\ out' = AdminReply("addadmin", requester, target, "")
          /\ UNCHANGED admins
     ELSE /\ admins' = admins \cup {target}
          /\ out' = AdminReply("addadmin", requester, target, "Added admin")
  /\ UNCHANGED << files, batches, items, meta, filestore_mode, batch_mode, sent,
                  archive, now, task, armed >>

cmd_removeadmin(requester, target) ==
  /\ Update
  /\ IF ~ IsOwner(requester)
     THEN /\ out' = AdminReply("removeadmin", requester, target, "")
          /\ UNCHANGED admins
     ELSE /\ admins' = admins \ {target}
          /\ out' = AdminReply("removeadmin", requester, target, "Removed admin")
  /\ UNCHANGED << files, batches, items, meta, filestore_mode, batch_mode, sent,
                  archive, now, task, armed >>
\* ----------------------------------------------------------- message_handler
\* A content message arrives (commands never reach this handler).  The code up
\* to the first await: the dispatch on the two session maps and the pop.
\* first:  the message is the first the user sends after /filestore.
\* second: the message is the update right after the one that was the user's
\*         first message after /filestore.
SecondItem(uid) == out.op = "message" /\ out.first /\ out.uid = uid

message_handler(uid) ==
  /\ Update
  /\ armed' = armed \ {uid}
  /\ IF uid \in filestore_mode
     THEN /\ filestore_mode' = filestore_mode \ {uid}
          /\ task' = [kind |-> "single", uid |-> uid, item |-> nupd + 1,
                      first |-> uid \in armed, second |-> SecondItem(uid),
                      attempt |-> 1]
          /\ out' = Quiet
     ELSE IF uid \in DOMAIN batch_mode
     THEN /\ task' = [kind |-> "batch", uid |-> uid, item |-> nupd + 1,
                      first |-> uid \in armed, second |-> SecondItem(uid),
                      attempt |-> 1]
          /\ out' = Quiet
          /\ UNCHANGED filestore_mode
     ELSE /\ out' = Done(uid, "none", "", uid \in armed, SecondItem(uid), FALSE, FALSE)
          /\ UNCHANGED << filestore_mode, task >>
  /\ UNCHANGED << DbVars, batch_mode, sent, archive, now >>

\* sent after a forward for uid has produced the group message mid
Sent(uid, mid) ==
  IF uid \in DOMAIN sent THEN [sent EXCEPT ![uid] = Append(@, mid)] ELSE sent

\* try_forward, one attempt that raises: sleep and try again, or give up and
\* return None after the last attempt.
ForwardFail ==
  /\ task.kind \in {"single", "batch"}
  /\ IF task.attempt < Retries
     THEN /\ task' = [task EXCEPT !.attempt = @ + 1]
          /\ UNCHANGED out
     ELSE /\ task' = NoTask
          /\ out' = Done(task.uid, task.kind,
                         IF task.kind = "single"
                         THEN "Could not store the file (forward failed)." ELSE "",
                         task.first, task.second, FALSE, FALSE)
  /\ UNCHANGED << DbVars, filestore_mode, batch_mode, sent, archive, now, nupd,
                  armed >>

\* try_forward succeeds on the single path: the message is in the group under
\* a new message id, and the handler runs on to its reply without an await.
SingleForwardOk ==
  /\ task.kind = "single"
  /\ LET mid == Len(archive) + 1 IN
     /\ archive' = Append(archive, [src |-> task.item])
     /\ \E code \in Codes :                    \* gen_code(8)
          IF FilesHasCode(code)
          THEN \* INSERT INTO files raises sqlite3.IntegrityError
               /\ out' = Done(task.uid, "single", "IntegrityError", task.first, task.second,
                               TRUE, FALSE)
               /\ UNCHANGED files
          ELSE /\ files' = files \cup
                    { [code |-> code, msg_id |-> mid, owner |-> task.uid,
                       created_at |-> now, caption |-> CaptionOf(InboundMsg(task.item)),
                       file_type |-> detect_file_type(InboundMsg(task.item))] }
               /\ out' = Done(task.uid, "single", "Stored!", task.first, task.second,
                               TRUE, Unused(code))
  /\ sent' = Sent(task.uid, Len(archive) + 1)
  /\ task' = NoTask
  /\ UNCHANGED << batches, items, admins, meta, filestore_mode, batch_mode,
                  now, nupd, armed >>

\* try_forward succeeds on the batch path: batch_mode[uid].append(mid)
BatchForwardOk ==
  /\ task.kind = "batch"
  /\ LET mid == Len(archive) + 1 IN
     /\ archive' = Append(archive, [src |-> task.item])
     /\ IF task.uid \in DOMAIN batch_mode
        THEN /\ batch_mode' = [batch_mode EXCEPT ![task.uid] = Append(@, mid)]
             /\ out' = Done(task.uid, "batch", "", task.first, task.second, TRUE, FALSE)
        ELSE \* batch_mode[uid] raises KeyError
             /\ out' = Done(task.uid, "batch", "KeyError", task.first, task.second, TRUE, FALSE)
             /\ UNCHANGED batch_mode
     /\ sent' = Sent(task.uid, mid)
  /\ task' = NoTask
  /\ UNCHANGED << DbVars, filestore_mode, now, nupd, armed >>

\* ------------------------------------------- cmd_start, handle_restore_request
\* the pointers of the batch with this code, in the order its items were sent
BatchInSentOrder(code) == SortedBySrc(Range(MidsOf(items, code)))

\* /start CODE up to the first await: the two lookups.  A restore of a batch
\* remembers (want) what the batch with that code holds.
handle_restore_request(uid, code) ==
  /\ Update
  /\ LET r == Resolve(code) IN
     IF r.kind = "NotFound"
     THEN /\ out' = [op |-> "restore", reply |-> "Invalid or expired link.",
                     code |-> code, calls |-> << >>, batch |-> BatchesHasCode(code),
                     want |-> BatchInSentOrder(code), fetched |-> << >>, oks |-> << >>]
          /\ UNCHANGED task
     ELSE /\ task' = [kind |-> "restore", code |-> code,
                      single |-> r.kind = "SingleRef", rows |-> r.pointers,
                      calls |-> << >>, batch |-> BatchesHasCode(code),
                      want |-> BatchInSentOrder(code), fetched |-> r.pointers,
                      oks |-> << >>]
          /\ out' = Quiet
  /\ UNCHANGED << DbVars, filestore_mode, batch_mode, sent, archive, now, armed >>

\* the rows the for loop still has to visit after the call for the first of
\* rows has returned (forward_message_by_id swallows the exception, and the
\* loop ignores its result)
RestRows_AbortOnFail(rows, ok) == IF ok THEN Tail(rows) ELSE << >>
RestRows(rows, ok) == Tail(rows)

\* forward_message_by_id for the next row: the call is issued; it delivers
\* (ok) or raises and returns None.  fetched is what the SELECT returned, oks
\* the outcome of every call so far.
Replay(ok) ==
  /\ task.kind = "restore"
  /\ LET calls == Append(task.calls, Head(task.rows))
         oks   == Append(task.oks, ok)
         rest  == RestRows(task.rows, ok)
         done  == [op |-> "restore", code |-> task.code,
                   calls |-> calls, batch |-> task.batch, want |-> task.want,
                   fetched |-> task.fetched, oks |-> oks,
                   reply |-> IF task.single /\ ~ ok THEN "Failed to restore file."
                             ELSE IF task.single THEN ""
                             ELSE "Sending files"]
     IN IF rest = << >>
        THEN /\ task' = NoTask
             /\ out' = done
        ELSE /\ task' = [task EXCEPT !.rows = rest, !.calls = calls, !.oks = oks]
             /\ UNCHANGED out
  /\ UNCHANGED << DbVars, filestore_mode, batch_mode, sent, archive, now, nupd,
                  armed >>

\* ----------------------------------------------------------- auto_delete_loop
\* DELETE FROM items WHERE code=?, for the codes of the batches a pass deletes
DeleteItems_Never(rows, codes) == rows
DeleteItems(rows, codes) == SelectSeq(rows, LAMBDA r : r.code \notin codes)

\* One pass of the loop body, from the top of the while to the next sleep.
\* A pass that removes nothing leaves every relation as it was.
auto_delete_loop ==
  /\ IF ~ SweepEnabled \/ Delay = 0
     THEN \* asyncio.sleep(10); continue
          UNCHANGED << files, batches, items, out >>
     ELSE LET deadFiles   == { f \in files : Outdated(f.created_at, now, Delay) }
              deadBatches == { b \in batches : Outdated(b.created_at, now, Delay) }
              deadCodes   == { b.code : b \in deadBatches }
              removed     == Cardinality(deadFiles) + Cardinality(deadBatches)
          IN /\ files' = files \ deadFiles
             /\ batches' = batches \ deadBatches
             /\ items' = DeleteItems(items, deadCodes)
             /\ out' = IF removed = 0 THEN out
                       ELSE [op |-> "sweep", reply |-> "", at |-> now, removed |-> removed,
                             batches |-> Cardinality(deadBatches)]
  /\ UNCHANGED << admins, meta, filestore_mode, batch_mode, sent, archive, now,
                  task, nupd, armed >>

\* the clock read by int(time()) moves on
Tick ==
  /\ now < MaxTime
  /\ now' = now + 1
  /\ UNCHANGED << DbVars, filestore_mode, batch_mode, sent, archive, task, nupd,
                  out, armed >>

\* -------------------------------------------------------------------- Next
Next ==
  \/ \E u \in Users : cmd_filestore(u)
  \/ \E u \in Users, c \in TypedCodes : cmd_setcode(u, c)
  \/ \E u \in Users : cmd_batch(u)
  \/ \E u \in Users : cmd_batchdone(u)
  \/ \E u \in Users, t \in Users : cmd_addadmin(u, t)
  \/ \E u \in Users, t \in Users : cmd_removeadmin(u, t)
  \/ \E u \in Users : message_handler(u)
  \/ ForwardFail
  \/ SingleForwardOk
  \/ BatchForwardOk
  \/ \E u \in Users, c \in TypedCodes : handle_restore_request(u, c)
  \/ \E ok \in BOOLEAN : Replay(ok)
  \/ auto_delete_loop
  \/ Tick

Spec == Init /\ [][Next]_vars

\* post_init starts the loop as a task of its own and the loop never returns:
\* a pass that has something to remove is eventually run.
FairSpec == Spec /\ WF_vars(auto_delete_loop)
\* ==================================================================== claims
Registry == << files, batches, items >>

\* C1: in every reachable state no code is held by two entities of the
\* registry: no two files rows share a code, no two batches rows share a code,
\* and no code is at once the code of a files row and of a batches row or of
\* an items row.
C1_CodeUnique ==
  /\ \A f \in files, g \in files : f.code = g.code => f = g
  /\ \A b \in batches, c \in batches : b.code = c.code => b = c
  /\ \A f \in files, b \in batches : f.code # b.code
  /\ \A f \in files, i \in DOMAIN items : f.code # items[i].code

\* C2: the owner is in the admins relation in every reachable state.
C2_OwnerIsAdmin == OWNER_ID \in admins

\* C3: a user has at most one capture session at any time: no user is in
\* filestore_mode and in batch_mode at once (so /filestore and /batch each
\* replace whatever session the user had).
C3_OneSession ==
  \A u \in Users : ~ (u \in filestore_mode /\ u \in DOMAIN batch_mode)

\* C4: a user sends /filestore and then two content messages.  Once the first
\* message has been taken the user is IDLE; exactly one files row is created,
\* for the first message (whose forward succeeded; a failed forward is the
\* case of C5); the second message never creates a files row.
C4_SessionExclusivity ==
  /\ (task.kind \in {"single", "batch"} /\ task.first) => SessionState(task.uid) = "IDLE"
  /\ (out.op = "message" /\ out.first) => SessionState(out.uid) = "IDLE"
  /\ (out.op = "message" /\ out.first /\ out.forwarded) => out.reply = "Stored!"
  /\ (out.op = "message" /\ out.second) => out.reply # "Stored!"

\* C5: when message_handler returns from a message it took in filestore mode,
\* the user is IDLE, whether the forward succeeded or failed; and when the
\* forward failed, that step leaves files, batches and items as they were.
C5_SessionConsumed ==
  [][ \A u \in Users :
        (task.kind = "single" /\ task.uid = u /\ task' = NoTask) =>
           /\ SessionState(u)' = "IDLE"
           /\ (~ out'.forwarded) => UNCHANGED Registry ]_vars

\* C6: a restore of the code of a batch issues its replay calls for exactly the
\* pointers of that batch, in the order in which the user sent the items.
C6_OrderPreserved ==
  (out.op = "restore" /\ out.batch) => out.calls = out.want

\* C7: after a successful rename from code X to code Y, X resolves to NotFound
\* and Y resolves to the single pointer the files row had under X.
C7_RenameRekeys ==
  (out.op = "setcode" /\ out.reply = "Code updated") =>
     /\ Resolve(out.old).kind = "NotFound"
     /\ Resolve(out.new) = [kind |-> "SingleRef", pointers |-> << out.pointer >>]

\* C8: a /setcode whose new code is the code of a files row or of a batches
\* row is rejected with "Code already in use."; a /setcode by a user who owns
\* no files row is rejected (with "No recent file to rename." when the new
\* code is free); either way files, batches and items are unchanged.
C8_RenameRejected ==
  [][ (nupd' # nupd /\ out'.op = "setcode") =>
        /\ ((\E f \in files : f.code = out'.new) \/ (\E b \in batches : b.code = out'.new))
             => (out'.reply = "Code already in use." /\ UNCHANGED Registry)
        /\ (\A f \in files : f.owner # out'.uid)
             => /\ out'.reply \in {"Code already in use.", "No recent file to rename."}
                /\ Unused(out'.new) => out'.reply = "No recent file to rename."
                /\ UNCHANGED Registry ]_vars

\* C8 witness: a /setcode to the code of a batch, which no files row has, by a
\* user who owns a files row, was rejected.
C8_Witness ==
  /\ out.op = "setcode"
  /\ out.reply = "Code already in use."
  /\ \E b \in batches : b.code = out.new
  /\ \A f \in files : f.code # out.new
  /\ \E f \in files : f.owner = out.uid

\* C9: a single capture whose forward succeeded ends with its files row stored
\* under a code that no files row and no batches row had; a /batchdone with at
\* least one item ends with its batch stored under such a code.
C9_RetryOnCollision ==
  /\ (out.op = "message" /\ out.path = "single" /\ out.forwarded)
        => (out.reply = "Stored!" /\ out.fresh)
  /\ (out.op = "batchdone" /\ out.reply \in {"Batch saved!", "IntegrityError"})
        => (out.reply = "Batch saved!" /\ out.fresh)

\* C10: a files row, a batches row or an items row leaves the registry only in
\* a step taken with retention enabled and a non-zero delay, and only when its
\* created_at (for an items row: that of its batch) is strictly less than
\* now - delay.  So nothing is removed with retention off or delay 0, and an
\* entity created at t is still there at every time up to t + delay.
C10_SweepOnlyExpired ==
  [][ /\ \A f \in files :
           (\A g \in files' : g.msg_id # f.msg_id) =>
              (meta.auto_delete_enabled = "1" /\ Delay # 0 /\ f.created_at < now - Delay)
      /\ \A b \in batches :
           (b \notin batches') =>
              (meta.auto_delete_enabled = "1" /\ Delay # 0 /\ b.created_at < now - Delay)
      /\ \A i \in DOMAIN items :
           (\A j \in DOMAIN items' : items'[j] # items[i]) =>
              /\ meta.auto_delete_enabled = "1" /\ Delay # 0
              /\ \E b \in batches : b.code = items[i].code /\ b.created_at < now - Delay
    ]_vars

\* C10 witness: a pass of the loop has just removed something and has left a
\* files row whose age is exactly the delay.
C10_Witness ==
  /\ out.op = "sweep"
  /\ out.removed > 0
  /\ \E f \in files : out.at - f.created_at = Delay

\* C11: under a fairly scheduled loop, with retention enabled and a non-zero
\* delay, every files row and every batches row whose age exceeds the delay is
\* eventually removed, the batch with its items: again and again the registry
\* holds no entity older than the delay (an entity that is too old stays too
\* old until it is removed, so each one is gone at the next such state).
NothingOutdated ==
  /\ \A f \in files : ~ (now - f.created_at > Delay)
  /\ \A b \in batches : ~ (now - b.created_at > Delay)
  /\ \A i \in DOMAIN items : \E b \in batches :
        b.code = items[i].code /\ ~ (now - b.created_at > Delay)
C12_BatchItemsConsistent ==
  /\ \A i \in DOMAIN items : \E b \in batches : b.code = items[i].code
  /\ \A b \in batches :
        /\ Len(MidsOf(items, b.code)) >= 1
        /\ b.item_count = Len(MidsOf(items, b.code))

\* C12 witness: a pass of the loop has removed a batch and its items while a
\* younger batch stays with its items.
C12_Witness ==
  /\ out.op = "sweep"
  /\ out.batches > 0
  /\ \E b \in batches : \E i \in DOMAIN items : items[i].code = b.code

\* C13: a /batchdone by an admin whose batch session holds no item replies
\* "Batch is empty.", leaves files, batches and items as they were, and leaves
\* the user IDLE.
C13_EmptyBatch ==
  [][ \A u \in Users :
        (nupd' # nupd /\ out'.op = "batchdone" /\ out'.uid = u /\ is_admin(u)
           /\ u \in DOMAIN batch_mode /\ batch_mode[u] = << >>) =>
           /\ out'.reply = "Batch is empty."
           /\ UNCHANGED Registry
           /\ SessionState(u)' = "IDLE" ]_vars

\* C14: a /batch by a user who is not in admins is refused with "Admins only."
\* and creates no session: batch_mode and filestore_mode, and so the user's
\* session state, are after the call what they were before it.
C14_BatchRefused ==
  [][ \A u \in Users :
        (nupd' # nupd /\ out'.op = "batch" /\ out'.uid = u /\ u \notin admins) =>
           /\ out'.reply = "Admins only."
           /\ UNCHANGED << batch_mode, filestore_mode >>
           /\ SessionState(u)' = SessionState(u) ]_vars

\* C14 witness: a /batch was refused to a user other than the owner who holds a batch session from
\* the time they were an admin; the session is still there.
C14_Witness ==
  /\ out.op = "batch"
  /\ out.reply = "Admins only."
  /\ out.uid # OWNER_ID
  /\ out.uid \notin admins
  /\ out.uid \in DOMAIN batch_mode

\* C15: a restore of a batch of N items issues the replay call for each of the
\* N fetched pointers exactly once and in their order, whatever the outcome of
\* the calls: while it runs, the calls issued followed by the rows still to
\* visit are the fetched rows (a failed call is neither repeated nor the end
\* of the loop), and when it ends the calls issued are the fetched rows.
C15_ReplayEachOnce ==
  /\ (task.kind = "restore" /\ ~ task.single) =>
        /\ task.calls \o task.rows = task.fetched
        /\ Len(task.oks) = Len(task.calls)
  /\ (out.op = "restore" /\ out.reply = "Sending files") =>
        /\ out.calls = out.fetched
        /\ Len(out.oks) = Len(out.fetched)

\* C15 witness: a restore of a batch of two items has ended; its first call
\* failed and the second was issued.
C15_Witness ==
  /\ out.op = "restore"
  /\ out.reply = "Sending files"
  /\ Len(out.fetched) = 2
  /\ Len(out.calls) = 2
  /\ ~ out.oks[1]

\* C16: a /addadmin or /removeadmin sent by a user who is not the owner leaves
\* admins unchanged, whatever the target; so admins changes only in a step of
\* one of the two commands sent by the owner.
C16_NonOwnerNoChange ==
  [][ /\ (nupd' # nupd /\ out'.op \in {"addadmin", "removeadmin"} /\ out'.uid # OWNER_ID)
           => UNCHANGED admins
      /\ (admins' # admins)
           => (out'.op \in {"addadmin", "removeadmin"} /\ out'.uid = OWNER_ID) ]_vars

\* C16 witness: a user who is an admin but not the owner has sent /removeadmin
\* for the owner, and the owner is still an admin.
C16_Witness ==
  /\ out.op = "removeadmin"
  /\ out.uid # OWNER_ID
  /\ out.uid \in admins
  /\ out.target = OWNER_ID
  /\ OWNER_ID \in admins

\* C17: try_forward makes at most 3 attempts.  It ends at the first attempt
\* that succeeds, with that attempt's message as the one write into the group
\* (the id the handler then stores); it ends without success only at the third
\* attempt, and then nothing was written into the group; an attempt that fails
\* writes nothing; and nothing else writes into the group.
C17_ForwardBounded ==
  [][ /\ (task.kind \in {"single", "batch"}) =>
           /\ task.attempt \in 1..3
           /\ (task' = NoTask /\ out'.forwarded) =>
                 /\ archive' = Append(archive, [src |-> task.item])
                 /\ (out'.reply = "Stored!") =>
                       \E f \in files' \ files : f.msg_id = Len(archive')
           /\ (task' = NoTask /\ ~ out'.forwarded) =>
                 (task.attempt = 3 /\ archive' = archive)
           /\ (task' # NoTask) =>
                 (archive' = archive /\ task'.attempt \in {task.attempt, task.attempt + 1})
      /\ (archive' # archive) => (task.kind \in {"single", "batch"} /\ task' = NoTask)
    ]_vars

\* C17 witness: a single capture has ended after failed attempts only: the
\* failure was reported and the group is empty.
C17_Witness ==
  /\ out.op = "message"
  /\ out.path = "single"
  /\ ~ out.forwarded
  /\ out.reply = "Could not store the file (forward failed)."
  /\ archive = << >>

\* C18: the batch that /batchdone emits holds exactly the group message ids of
\* the content messages the user sent since their last /batch and whose
\* forward succeeded, each once and in order: while the session is open
\* batch_mode[u] is that list, and a /batchdone that finalizes stores that list
\* (nothing when the list is empty).
C18_BatchExact ==
  /\ \A u \in DOMAIN batch_mode : batch_mode[u] = sent[u]
  /\ (out.op = "batchdone" /\ out.reply \in {"Batch saved!", "IntegrityError", "Batch is empty."})
        => out.got = out.want

\* C19: a /setcode by user U that succeeds changes the code of exactly one
\* files row, a row owned by U that no other row of U is newer than, and
\* nothing else: every other files row is unchanged, the renamed row keeps its
\* msg_id, owner, created_at, caption and file_type, and batches and items are
\* unchanged; a /setcode that does not succeed changes none of the three.
C19_RenameFrame ==
  [][ (nupd' # nupd /\ out'.op = "setcode") =>
        /\ UNCHANGED << batches, items >>
        /\ (out'.reply # "Code updated") => UNCHANGED files
        /\ (out'.reply = "Code updated") =>
              \E row \in files :
                 /\ row.owner = out'.uid
                 /\ \A g \in files : g.owner = out'.uid => g.created_at <= row.created_at
                 /\ files' = (files \ {row}) \cup {[row EXCEPT !.code = out'.new]} ]_vars

\* C19 witness: a /setcode has succeeded while another user owns a files row.
C19_Witness ==
  /\ out.op = "setcode"
  /\ out.reply = "Code updated"
  /\ \E f \in files : f.owner # out.uid
  /\ \E f \in files : f.owner = out.uid /\ f.code = out.new

\* C20: batch capture is open to admins only for as long as the session lasts:
\* every user who holds a batch session is an admin, a content message taken
\* on the batch path is from an admin, and so is one just forwarded on that
\* path.  Stated for the users other than the owner, whose removal from
\* admins is the matter of C2.
C20_AdminsOnly ==
  /\ \A u \in DOMAIN batch_mode : u # OWNER_ID => u \in admins
  /\ (task.kind = "batch" /\ task.uid # OWNER_ID) => task.uid \in admins
  /\ (out.op = "message" /\ out.path = "batch" /\ out.forwarded /\ out.uid # OWNER_ID)
        => out.uid \in admins
====
